---- MODULE Spec2Model ----
(***************************************************************************)
(* Model of app.py: a Streamlit script that uploads a CSV, builds a        *)
(* prompt, sends it to one of two LLM backends and renders the answer.     *)
(* One script run (rerun) of main() is a sequence of steps tracked by pc;  *)
(* st.session_state survives across reruns, everything else is per run.    *)
(***************************************************************************)
EXTENDS Integers, Sequences, FiniteSets, TLC

\* ---------------------------------------------------------------- bounds
MaxKeyLen == 2      \* API keys typed in the sidebar: "", "a", "aa"
MaxTextLen == 1     \* LLM reply texts: "", "a"
MaxCtxLen == 1      \* free-text context / custom question: "", "a"
MaxRows == 1        \* rows of the uploaded CSV: 0..MaxRows

\* ------------------------------------------------------- Python values
None == [t |-> "None"]
Str(s) == [t |-> "str", v |-> s]
Absent == [t |-> "absent"]          \* key not in st.session_state

\* Python truthiness: None and "" are falsy, other objects are truthy
Truthy(x) ==
    CASE x.t = "None" -> FALSE
      [] x.t = "str"  -> x.v # ""
      [] OTHER        -> TRUE

\* str(x) inside an f-string
Format(x) == IF x.t = "None" THEN "None" ELSE x.v

RECURSIVE Rep(_)
Rep(n) == IF n = 0 THEN "" ELSE "a" \o Rep(n - 1)

Keys == {Str(Rep(n)) : n \in 0..MaxKeyLen}
Texts == {Str(Rep(n)) : n \in 0..MaxTextLen}
FreeTexts == {Str(Rep(n)) : n \in 0..MaxCtxLen}

Min(a, b) == IF a < b THEN a ELSE b

\* ------------------------------------------------------------- datasets
ChartColumns == {"Gender", "Party", "Support"}
ColumnOrder == <<"Gender", "Party", "Support">>
ColsOf(S) == SelectSeq(ColumnOrder, LAMBDA c : c \in S)
Range(s) == {s[i] : i \in 1..Len(s)}

DataFrame(cols, n) == [t |-> "DataFrame", columns |-> cols, nrows |-> n]
DataFrames == {DataFrame(ColsOf(S), n) : S \in (SUBSET ChartColumns) \ {{}}, n \in 0..MaxRows}

\* what st.file_uploader returns: None, or a file that pd.read_csv parses or not
UploadedFiles == {None, [t |-> "file", parses |-> FALSE]}
                 \cup {[t |-> "file", parses |-> TRUE, df |-> d] : d \in DataFrames}

\* pd.read_csv: a DataFrame, or a raised parser error
read_csv(f) ==
    IF f.parses THEN [ret |-> f.df, raised |-> None]
    ELSE [ret |-> None, raised |-> [t |-> "exc", kind |-> "ParserError"]]

\* ------------------------------------------------------ sidebar choices
Providers == {Str("Ollama"), Str("Gemini Pro")}
OllamaModels == {Str("llama2"), Str("llama3.2:latest"), Str("codellama")}
AnalysisTypes == {Str("Gender-based Analysis"), Str("Historical Comparison"),
                  Str("Demographic Trends"), Str("Custom Query")}

\* questions.get(analysis_type)
questions(analysis_type) ==
    CASE analysis_type.v = "Gender-based Analysis" ->
           Str("What are the key differences in political party support between genders?")
      [] analysis_type.v = "Historical Comparison" ->
           Str("How has party support changed compared to the 2019 modeled data?")
      [] analysis_type.v = "Demographic Trends" ->
           Str("What are the main demographic trends across all parties?")
      [] OTHER -> None

\* ------------------------------------------------------------ UI output
Placeholder == "No additional context provided"
MissingKeyMsg == "Please enter your Gemini API key in the sidebar"
OllamaErrMsg == "Error connecting to Ollama"
GeminiErrMsg == "Error connecting to Gemini"
FileErrMsg == "Error processing the file"
ChartWarnMsg == "Could not create visualization with the current data format"

Widget(w, arg) == [w |-> w, arg |-> arg]
StError(msg, e) == [w |-> "error", arg |-> msg, exc |-> e]

\* ------------------------------------------------------------- backends
Exc(kind) == [t |-> "exc", kind |-> kind]

\* subclasses of requests.exceptions.RequestException that post() and
\* raise_for_status() raise
RequestExceptionKinds == {"ConnectionError", "Timeout", "HTTPError"}

\* what the local endpoint can do with one POST
OllamaReplies ==
    {[net |-> n, status |-> 0, has_response |-> FALSE, response |-> None] :
        n \in {"ConnectionError", "Timeout"}}
    \cup {[net |-> "ok", status |-> c, has_response |-> FALSE, response |-> None] :
        c \in {404, 500}}
    \cup {[net |-> "ok", status |-> 200, has_response |-> FALSE, response |-> None]}
    \cup {[net |-> "ok", status |-> 200, has_response |-> TRUE, response |-> x] : x \in Texts}

\* what the hosted API can do with one generate_content call
GeminiReplies ==
    {[outcome |-> "api_error", text |-> None], [outcome |-> "no_text", text |-> None]}
    \cup {[outcome |-> "ok", text |-> x] : x \in Texts}

OllamaProvider(model) ==
    [t |-> "OllamaProvider", model |-> model.v, url |-> "http://localhost:11434/api/generate"]

GeminiProvider(api_key) ==
    [t |-> "GeminiProvider", api_key |-> api_key.v, model |-> "gemini-pro"]

\* the body of the try block of OllamaProvider.generate_response
OllamaTry(reply) ==
    IF reply.net # "ok" THEN [ret |-> None, raised |-> Exc(reply.net)]
    ELSE IF reply.status >= 400 THEN [ret |-> None, raised |-> Exc("HTTPError")]
    ELSE IF ~reply.has_response THEN [ret |-> None, raised |-> Exc("KeyError")]
    ELSE [ret |-> reply.response, raised |-> None]

\* variant: except requests.exceptions.ConnectionError
OllamaCatchesConnectionOnly(e) == e.kind = "ConnectionError"

\* except requests.exceptions.RequestException
OllamaCatches(e) == e.kind \in RequestExceptionKinds

\* OllamaProvider.generate_response: the value returned, the exception that
\* leaves the method, the st.error calls and the requests issued
OllamaGenerate(self, prompt, reply) ==
    LET payload == [model |-> self.model, prompt |-> prompt, stream |-> FALSE]
        call == [to |-> "Ollama", url |-> self.url, payload |-> payload, reply |-> reply]
        r == OllamaTry(reply)
    IN  IF r.raised = None
        THEN [ret |-> r.ret, raised |-> None, shown |-> <<>>, calls |-> <<call>>]
        ELSE IF OllamaCatches(r.raised)
        THEN [ret |-> None, raised |-> None,
              shown |-> <<StError(OllamaErrMsg, r.raised.kind)>>, calls |-> <<call>>]
        ELSE [ret |-> None, raised |-> r.raised, shown |-> <<>>, calls |-> <<call>>]

\* the body of the try block of GeminiProvider.generate_response
GeminiTry(reply) ==
    IF reply.outcome = "api_error" THEN [ret |-> None, raised |-> Exc("GoogleAPIError")]
    ELSE IF reply.outcome = "no_text" THEN [ret |-> None, raised |-> Exc("ValueError")]
    ELSE [ret |-> reply.text, raised |-> None]

\* except Exception
GeminiCatches(e) == TRUE

GeminiGenerate(self, prompt, reply) ==
    LET call == [to |-> "Gemini", url |-> self.model, payload |-> [prompt |-> prompt], reply |-> reply]
        r == GeminiTry(reply)
    IN  IF r.raised = None
        THEN [ret |-> r.ret, raised |-> None, shown |-> <<>>, calls |-> <<call>>]
        ELSE IF GeminiCatches(r.raised)
        THEN [ret |-> None, raised |-> None,
              shown |-> <<StError(GeminiErrMsg, r.raised.kind)>>, calls |-> <<call>>]
        ELSE [ret |-> None, raised |-> r.raised, shown |-> <<>>, calls |-> <<call>>]

\* llm_provider.generate_response(prompt): dynamic dispatch on the provider
generate_response(self, prompt, reply) ==
    IF self.t = "OllamaProvider" THEN OllamaGenerate(self, prompt, reply)
    ELSE GeminiGenerate(self, prompt, reply)

RepliesFor(self) == IF self.t = "OllamaProvider" THEN OllamaReplies ELSE GeminiReplies

\* -------------------------------------------------------- DataAnalyzer
\* df.describe().to_string() and df.head().to_string()
describe(df) == [t |-> "describe", columns |-> df.columns, count |-> df.nrows]
head(df) == [t |-> "head", columns |-> df.columns, rows |-> Min(df.nrows, 5)]

\* variant: context if context is not None else ...
ContextSlotIsNotNone(context) == IF context # None THEN context.v ELSE Placeholder

\* the slot after "Additional Context: "
ContextSlot(context) == IF Truthy(context) THEN context.v ELSE Placeholder

\* the prompt as the sequence of its pieces, in the order of the f-string
generate_analysis_prompt(df, question, context) ==
    << "You are a data analyst examining political survey data. Here's the context:",
       "Dataset Summary:",
       "Columns: ", df.columns,
       "Total Rows: ", df.nrows,
       "Statistical Summary:", describe(df),
       "Sample Data:", head(df),
       "Additional Context: ", ContextSlot(context),
       "Question: ", Format(question),
       "Please provide a detailed analysis that includes:",
       "1. Direct answers to the specific question",
       "2. Relevant statistical insights",
       "3. Notable patterns or trends",
       "4. Important demographic variations",
       "5. Historical comparisons where applicable",
       "Format your response in a clear, structured manner using markdown formatting." >>

ContextPos == 12
QuestionPos == 14

\* variant: analyze forgets to pass the context on
analyzeDroppingContext(self, question, context, reply) ==
    generate_response(self.llm_provider, generate_analysis_prompt(self.df, question, None), reply)

\* DataAnalyzer.analyze
analyze(self, question, context, reply) ==
    generate_response(self.llm_provider, generate_analysis_prompt(self.df, question, context), reply)

\* ----------------------------------------------------------- Visualizer
\* px.bar raises ValueError when a named column is not in the data frame
px_bar(df, x, y, color) ==
    IF {x, y, color} \subseteq Range(df.columns)
    THEN [ret |-> [t |-> "Figure", x |-> x, y |-> y, color |-> color, barmode |-> "group",
                   title |-> "Party Support by Gender"],
          raised |-> None]
    ELSE [ret |-> None, raised |-> Exc("ValueError")]

\* variant: the columns are validated and absent is returned
create_visualizationValidating(df, kind) ==
    IF kind = "gender_distribution" /\ ChartColumns \subseteq Range(df.columns)
    THEN px_bar(df, "Gender", "Support", "Party")
    ELSE [ret |-> None, raised |-> None]

create_visualization(df, kind) ==
    IF kind = "gender_distribution" THEN px_bar(df, "Gender", "Support", "Party")
    ELSE [ret |-> None, raised |-> None]

\* ---------------------------------------------------------------- state
VARIABLES
    gemini_api_key,   \* st.session_state.gemini_api_key (Absent before the first run)
    pc,               \* position of the current script run in main()
    provider,         \* locals of main(), None until assigned in this run
    model,
    key_field,        \* what the "Enter Gemini API Key" field returned in this run
    uploaded_file,
    df,
    analysis_type,
    context,
    question,
    clicked,          \* st.button("Analyze") returned True in this run
    llm_provider,
    analysis,
    gen,              \* outcome of this run's analyze() call, None if not called
    ui,               \* Streamlit elements emitted by this run, in order
    backend_calls,    \* requests sent to a backend by this run, in order
    escaped,          \* exception that left main(), None if none did
    fn_in,            \* inputs of a direct call of a pure function
    fn_out            \* its result

mainVars == <<gemini_api_key, pc, provider, model, key_field, uploaded_file, df, analysis_type,
              context, question, clicked, llm_provider, analysis, gen, ui, backend_calls, escaped>>
fnVars == <<fn_in, fn_out>>
vars == <<mainVars, fnVars>>
locals == <<provider, model, key_field, uploaded_file, df, analysis_type,
            context, question, clicked, llm_provider, analysis, gen>>

Init ==
    /\ gemini_api_key = Absent
    /\ pc = "idle"
    /\ provider = None /\ model = None /\ key_field = None
    /\ uploaded_file = None /\ df = None /\ analysis_type = None
    /\ context = None /\ question = None /\ clicked = FALSE
    /\ llm_provider = None /\ analysis = None /\ gen = None
    /\ ui = <<>> /\ backend_calls = <<>> /\ escaped = None
    /\ fn_in = None /\ fn_out = None

Show(els) == ui' = ui \o els

\* ------------------------------------------------------ steps of main()
\* a user interaction starts a script run; st.title is its first element
Rerun ==
    /\ pc = "idle"
    /\ pc' = "initialize_session_state"
    /\ provider' = None /\ model' = None /\ key_field' = None
    /\ uploaded_file' = None /\ df' = None /\ analysis_type' = None
    /\ context' = None /\ question' = None /\ clicked' = FALSE
    /\ llm_provider' = None /\ analysis' = None /\ gen' = None
    /\ ui' = <<Widget("title", "Political Survey Data Analysis")>>
    /\ backend_calls' = <<>> /\ escaped' = None
    /\ UNCHANGED <<gemini_api_key, fnVars>>

\* variant: the key is reset on every run
InitialKeyReset(k) == Str("")

\* the value initialize_session_state leaves in the session state
InitialKey(k) == IF k = Absent THEN Str("") ELSE k

initialize_session_state ==
    /\ pc = "initialize_session_state"
    /\ gemini_api_key' = InitialKey(gemini_api_key)
    /\ pc' = "render_sidebar"
    /\ UNCHANGED <<locals, ui, backend_calls, escaped, fnVars>>

\* st.sidebar.text_input(value=stored): the user's edit, or the pre-filled value
text_input(value, typed) == IF typed = None THEN value ELSE typed

\* the key render_sidebar leaves in the session state
StoredKey(p, stored, api_key) == IF p = Str("Ollama") THEN stored ELSE api_key

render_sidebar ==
    /\ pc = "render_sidebar"
    /\ \E p \in Providers, m \in OllamaModels, typed \in Keys \cup {None} :
        LET api_key == text_input(gemini_api_key, typed) IN
        /\ provider' = p
        /\ IF p = Str("Ollama")
           THEN /\ typed = None
                /\ model' = m /\ key_field' = None
           ELSE /\ m = Str("llama2")
                /\ model' = None /\ key_field' = api_key
        /\ gemini_api_key' = StoredKey(p, gemini_api_key, api_key)
    /\ Show(<<Widget("sidebar.header", "Configuration")>>)
    /\ pc' = "file_uploader"
    /\ UNCHANGED <<uploaded_file, df, analysis_type, context, question, clicked,
                   llm_provider, analysis, gen, backend_calls, escaped, fnVars>>

InstructionsMsg == "Instructions"
TipsMsg == "Tips for Better Analysis"

file_uploader ==
    /\ pc = "file_uploader"
    /\ \E f \in UploadedFiles :
        /\ uploaded_file' = f
        /\ IF f # None
           THEN pc' = "read_csv" /\ UNCHANGED ui
           ELSE pc' = "tips" /\ Show(<<Widget("info", InstructionsMsg)>>)
    /\ UNCHANGED <<gemini_api_key, provider, model, key_field, df, analysis_type, context,
                   question, clicked, llm_provider, analysis, gen, backend_calls, escaped, fnVars>>

\* variant: except KeyError
MainCatchesKeyErrorOnly(e) == e.kind = "KeyError"

\* except Exception as e (the try around everything after the upload)
MainCatches(e) == TRUE

\* an exception raised inside the outer try block of main()
MainExcept(e, shown) ==
    IF MainCatches(e)
    THEN /\ Show(shown \o <<StError(FileErrMsg, e.kind)>>)
         /\ pc' = "tips"
         /\ escaped' = escaped
    ELSE /\ Show(shown)
         /\ pc' = "idle"
         /\ escaped' = e

read_csv_step ==
    /\ pc = "read_csv"
    /\ LET r == read_csv(uploaded_file) IN
       IF r.raised # None
       THEN /\ MainExcept(r.raised, <<>>)
            /\ df' = df
       ELSE /\ df' = r.ret
            /\ Show(<<Widget("subheader", "Dataset Preview"), Widget("dataframe", head(r.ret))>>)
            /\ pc' = "widgets"
            /\ escaped' = escaped
    /\ UNCHANGED <<gemini_api_key, provider, model, key_field, uploaded_file, analysis_type,
                   context, question, clicked, llm_provider, analysis, gen, backend_calls, fnVars>>

\* questions.get(analysis_type) or st.text_area(...)
QuestionFor(at, custom) == IF Truthy(questions(at)) THEN questions(at) ELSE custom

\* the selectbox, the two text areas and the Analyze button
widgets ==
    /\ pc = "widgets"
    /\ \E at \in AnalysisTypes, c \in FreeTexts, custom \in FreeTexts, b \in BOOLEAN :
        /\ Truthy(questions(at)) => custom = Str("")
        /\ analysis_type' = at
        /\ context' = c
        /\ question' = QuestionFor(at, custom)
        /\ clicked' = b
        /\ pc' = IF b THEN "provider" ELSE "tips"
    /\ UNCHANGED <<gemini_api_key, provider, model, key_field, uploaded_file, df,
                   llm_provider, analysis, gen, ui, backend_calls, escaped, fnVars>>

\* variant: the key check is dropped
KeyMissingNever(k) == FALSE

\* if not st.session_state.gemini_api_key
KeyMissing(k) == ~Truthy(k)

\* variant: the local backend is used whatever the selection
ProviderForAlwaysOllama(p, m, k) == OllamaProvider(Str("llama2"))

\* the provider object built for the sidebar selection
ProviderFor(p, m, k) == IF p = Str("Ollama") THEN OllamaProvider(m) ELSE GeminiProvider(k)

\* lines 165-171: build the provider, or report the missing key and return
select_provider ==
    /\ pc = "provider"
    /\ IF provider # Str("Ollama") /\ KeyMissing(gemini_api_key)
       THEN /\ Show(<<StError(MissingKeyMsg, "")>>)
            /\ pc' = "idle"
            /\ llm_provider' = llm_provider
       ELSE /\ llm_provider' = ProviderFor(provider, model, gemini_api_key)
            /\ pc' = "analyze"
            /\ UNCHANGED ui
    /\ UNCHANGED <<gemini_api_key, provider, model, key_field, uploaded_file, df, analysis_type,
                   context, question, clicked, analysis, gen, backend_calls, escaped, fnVars>>

Spinner == Widget("spinner", "Analyzing data...")

\* lines 173-175: DataAnalyzer(df, llm_provider).analyze(question, context)
analyze_step ==
    /\ pc = "analyze"
    /\ \E reply \in RepliesFor(llm_provider) :
        LET self == [df |-> df, llm_provider |-> llm_provider]
            out == analyze(self, question, context, reply)
        IN  /\ backend_calls' = backend_calls \o out.calls
            /\ gen' = [reply |-> reply, ret |-> out.ret, raised |-> out.raised]
            /\ IF out.raised # None
               THEN /\ MainExcept(out.raised, <<Spinner>> \o out.shown)
                    /\ analysis' = analysis
               ELSE /\ analysis' = out.ret
                    /\ Show(<<Spinner>> \o out.shown)
                    /\ pc' = "render"
                    /\ escaped' = escaped
    /\ UNCHANGED <<gemini_api_key, provider, model, key_field, uploaded_file, df, analysis_type,
                   context, question, clicked, llm_provider, fnVars>>

\* variant: the chart is created without a try block
ChartCatchesNothing(e) == FALSE

\* except Exception as e (the try around create_visualization)
ChartCatches(e) == TRUE

\* lines 182-187: the chart, a warning, or nothing
ChartTry(d) ==
    LET r == create_visualization(d, "gender_distribution") IN
    IF r.raised # None
    THEN IF ChartCatches(r.raised)
         THEN [shown |-> <<Widget("warning", ChartWarnMsg)>>, raised |-> None]
         ELSE [shown |-> <<>>, raised |-> r.raised]
    ELSE IF Truthy(r.ret)
         THEN [shown |-> <<Widget("plotly_chart", r.ret)>>, raised |-> None]
         ELSE [shown |-> <<>>, raised |-> None]

\* variant: the result is rendered unconditionally
HasResultAlways(a) == TRUE

\* if analysis:
HasResult(a) == Truthy(a)

\* st.download_button(data=analysis, file_name=..., mime=...)
DownloadButton(a) ==
    [w |-> "download_button", arg |-> "Download Analysis", data |-> a,
     file_name |-> "political_analysis.txt", mime |-> "text/plain"]

\* lines 177-194: what the run shows for an analysis, and the exception it raises
RenderResult(d, at, a) ==
    IF ~HasResult(a) THEN [shown |-> <<>>, raised |-> None]
    ELSE LET base == <<Widget("subheader", "Analysis Results"), Widget("markdown", a)>>
             chart == IF at = Str("Gender-based Analysis") THEN ChartTry(d)
                      ELSE [shown |-> <<>>, raised |-> None]
         IN  IF chart.raised # None
             THEN [shown |-> base \o chart.shown, raised |-> chart.raised]
             ELSE [shown |-> base \o chart.shown \o <<DownloadButton(a)>>, raised |-> None]

render_step ==
    /\ pc = "render"
    /\ LET r == RenderResult(df, analysis_type, analysis) IN
       IF r.raised # None
       THEN MainExcept(r.raised, r.shown)
       ELSE /\ Show(r.shown)
            /\ pc' = "tips"
            /\ escaped' = escaped
    /\ UNCHANGED <<gemini_api_key, locals, backend_calls, fnVars>>

\* lines 216-225: the closing sidebar text; the run ends
tips ==
    /\ pc = "tips"
    /\ Show(<<Widget("sidebar.markdown", "---"), Widget("sidebar.markdown", TipsMsg)>>)
    /\ pc' = "idle"
    /\ UNCHANGED <<gemini_api_key, locals, backend_calls, escaped, fnVars>>

Next ==
    \/ Rerun
    \/ initialize_session_state
    \/ render_sidebar
    \/ file_uploader
    \/ read_csv_step
    \/ widgets
    \/ select_provider
    \/ analyze_step
    \/ render_step
    \/ tips

Spec == Init /\ [][Next]_vars

\* ------------------------------------- direct calls of the pure functions
VizKinds == {"gender_distribution", "party_distribution", ""}
FnContexts == FreeTexts \cup {None, Str(Placeholder)}

InitFn ==
    /\ gemini_api_key = Absent
    /\ pc = "idle"
    /\ provider = None /\ model = None /\ key_field = None
    /\ uploaded_file = None /\ df = None /\ analysis_type = None
    /\ context = None /\ question = None /\ clicked = FALSE
    /\ llm_provider = None /\ analysis = None /\ gen = None
    /\ ui = <<>> /\ backend_calls = <<>> /\ escaped = None
    /\ fn_in \in {[df |-> d, question |-> q, context |-> c, kind |-> k] :
                    d \in DataFrames, q \in FreeTexts, c \in FnContexts, k \in VizKinds}
    /\ fn_out = None

call_generate_analysis_prompt ==
    /\ fn_out = None
    /\ fn_out' = [f |-> "generate_analysis_prompt",
                  ret |-> generate_analysis_prompt(fn_in.df, fn_in.question, fn_in.context),
                  raised |-> None]
    /\ UNCHANGED <<mainVars, fn_in>>

call_create_visualization ==
    /\ fn_out = None
    /\ fn_out' = [f |-> "create_visualization"] @@ create_visualization(fn_in.df, fn_in.kind)
    /\ UNCHANGED <<mainVars, fn_in>>

NextFn ==
    \/ call_generate_analysis_prompt
    \/ call_create_visualization

SpecFn == InitFn /\ [][NextFn]_vars

\* ============================================================ properties
ShownMsg(w, msg) == \E i \in 1..Len(ui) : ui[i].w = w /\ ui[i].arg = msg
ShownKind(w) == \E i \in 1..Len(ui) : ui[i].w = w
ResultShown == ShownMsg("subheader", "Analysis Results")
ChartAttempted == ShownKind("plotly_chart") \/ ShownMsg("warning", ChartWarnMsg)
DownloadShown == ShownKind("download_button")
IsOllama == llm_provider # None /\ llm_provider.t = "OllamaProvider"
IsGemini == llm_provider # None /\ llm_provider.t = "GeminiProvider"
AfterRender == pc \in {"tips", "idle"}
HostedWithoutKey ==
    clicked /\ provider = Str("Gemini Pro") /\ ~Truthy(gemini_api_key) /\ pc # "provider"
TransportOrStatusError ==
    gen # None /\ IsOllama /\ (gen.reply.net # "ok" \/ gen.reply.status >= 400)
HostedError == gen # None /\ IsGemini /\ gen.reply.outcome # "ok"
ParseFailed == uploaded_file # None /\ ~uploaded_file.parses /\ pc # "read_csv"
ChartColumnsMissing ==
    /\ AfterRender /\ gen # None /\ gen.raised = None /\ Truthy(analysis)
    /\ analysis_type = Str("Gender-based Analysis")
    /\ ~(ChartColumns \subseteq Range(df.columns))

\* C1: Analyze with the hosted backend selected and an empty stored key shows
\* the missing-key error and returns: no provider is constructed, no backend
\* call is made, and no result, chart or download button is produced.
C1_MissingKeyShortCircuits ==
    /\ HostedWithoutKey => ShownMsg("error", MissingKeyMsg)
    /\ ShownMsg("error", MissingKeyMsg) =>
         /\ pc = "idle"
         /\ llm_provider = None
         /\ backend_calls = <<>> /\ gen = None
         /\ ~ResultShown /\ ~ChartAttempted /\ ~DownloadShown

C1_Witness ==
    /\ HostedWithoutKey /\ gemini_api_key = Str("") /\ pc = "idle"
    /\ ShownMsg("error", MissingKeyMsg)

\* C2: when the local endpoint is unreachable or answers with a transport or
\* HTTP-status error, OllamaProvider.generate_response reports the error with
\* st.error and returns None; no exception leaves the method.
C2_OllamaFailureIsSentinel ==
    TransportOrStatusError =>
        /\ gen.ret = None
        /\ gen.raised = None
        /\ ShownMsg("error", OllamaErrMsg)
        /\ ~ShownMsg("error", FileErrMsg)

C2_Witness ==
    /\ TransportOrStatusError /\ gen.reply.net = "ok" /\ gen.reply.status = 500
    /\ gen.ret = None /\ ShownMsg("error", OllamaErrMsg)

\* C3: when analyze returns the failure sentinel the run renders no
\* "Analysis Results" section, attempts no chart and creates no download
\* button; these appear only when a result text is present.
C3_FailureRendersNothing ==
    /\ (gen # None /\ gen.ret = None) => ~ResultShown /\ ~ChartAttempted /\ ~DownloadShown
    /\ (ResultShown \/ ChartAttempted \/ DownloadShown) =>
         gen # None /\ gen.raised = None /\ gen.ret.t = "str" /\ analysis = gen.ret

C3_Witness ==
    /\ pc = "idle" /\ gen # None /\ gen.ret = None /\ gen.raised = None
    /\ analysis_type = Str("Gender-based Analysis")
    /\ ~ResultShown /\ ~DownloadShown

\* C4: analyze returns exactly what the backend returned for the prompt built
\* from the same question and context, and the data of the download button is
\* that text: a local reply {"response": X} makes analyze return X and the
\* download content X.
C4_AnalyzeReturnsBackendValue ==
    gen # None =>
        /\ Len(backend_calls) = 1
        /\ backend_calls[1].payload.prompt = generate_analysis_prompt(df, question, context)
        /\ backend_calls[1].reply = gen.reply
        /\ (IsOllama /\ gen.reply.has_response) => gen.ret = gen.reply.response
        /\ (IsGemini /\ gen.reply.outcome = "ok") => gen.ret = gen.reply.text
        /\ gen.raised = None => analysis = gen.ret
        /\ \A i \in 1..Len(ui) : ui[i].w = "download_button" => ui[i].data = gen.ret

C4_Witness ==
    /\ pc = "idle" /\ IsOllama /\ gen # None /\ gen.reply.has_response
    /\ context = Str("a")
    /\ gen.ret = Str("a")
    /\ \E i \in 1..Len(ui) : ui[i].w = "download_button" /\ ui[i].data = Str("a")

\* C5: one Analyze click issues at most one generate_response call, to the
\* backend selected in the sidebar; a failed call is followed by no retry and
\* no call to the other backend.
C5_OneCallToSelectedBackend ==
    /\ Len(backend_calls) <= 1
    /\ \A i \in 1..Len(backend_calls) :
         /\ provider = Str("Ollama") =>
              backend_calls[i].to = "Ollama" /\ backend_calls[i].payload.model = model.v
         /\ provider = Str("Gemini Pro") => backend_calls[i].to = "Gemini"

C5_Witness ==
    /\ pc = "idle" /\ provider = Str("Gemini Pro") /\ HostedError
    /\ Len(backend_calls) = 1 /\ backend_calls[1].to = "Gemini"

VizCalled == fn_out # None /\ fn_out.f = "create_visualization"
PromptBuilt == fn_out # None /\ fn_out.f = "generate_analysis_prompt"
LacksChartColumn(d) == ~(ChartColumns \subseteq Range(d.columns))

\* C6 as stated: create_visualization(df, "gender_distribution") on a dataset
\* lacking a "Gender", "Support" or "Party" column returns None rather than
\* faulting, and any other kind returns None.
C6_AbsentWhenColumnsMissing ==
    VizCalled =>
        /\ fn_out.raised = None
        /\ (fn_in.kind # "gender_distribution" \/ LacksChartColumn(fn_in.df)) => fn_out.ret = None

\* C6 amended: create_visualization(df, "gender_distribution") on a dataset
\* lacking one of the three columns raises (the ValueError of px.bar leaves
\* the method, no chart is returned); for any other kind it returns None
\* without raising.
C6_RaisesWhenColumnsMissing ==
    VizCalled =>
        /\ fn_in.kind # "gender_distribution" => fn_out.ret = None /\ fn_out.raised = None
        /\ (fn_in.kind = "gender_distribution" /\ LacksChartColumn(fn_in.df)) =>
             fn_out.ret = None /\ fn_out.raised = Exc("ValueError")

C6_Witness ==
    /\ VizCalled /\ fn_in.kind = "gender_distribution"
    /\ fn_in.df.columns = <<"Gender", "Support">>
    /\ fn_out.raised = Exc("ValueError")

\* C7: each of the five error kinds (local transport failure, hosted remote
\* error, missing key with the hosted backend, CSV parse failure, missing
\* chart columns) is caught where it occurs and shown to the user; none leaves
\* main(), and a CSV parse failure ends the request before any backend call.
C7_ErrorsCaughtAndShown ==
    /\ escaped = None
    /\ TransportOrStatusError => ShownMsg("error", OllamaErrMsg) /\ gen.raised = None
    /\ HostedError => ShownMsg("error", GeminiErrMsg) /\ gen.raised = None
    /\ HostedWithoutKey => ShownMsg("error", MissingKeyMsg)
    /\ ParseFailed =>
         /\ ShownMsg("error", FileErrMsg)
         /\ df = None /\ ~clicked /\ llm_provider = None
         /\ backend_calls = <<>> /\ gen = None
    /\ ChartColumnsMissing => ShownMsg("warning", ChartWarnMsg) /\ ~ShownMsg("error", FileErrMsg)

C7_Witness ==
    /\ pc = "idle" /\ ParseFailed /\ ShownMsg("error", FileErrMsg)
    /\ ShownMsg("sidebar.markdown", TipsMsg)

\* C8: with context None or "" the prompt holds the literal placeholder
\* "No additional context provided" after "Additional Context: "; with a
\* non-empty context it holds that context there and not the placeholder.
C8_ContextPlaceholder ==
    PromptBuilt =>
        LET prompt == fn_out.ret
            c == fn_in.context
        IN  /\ prompt[ContextPos - 1] = "Additional Context: "
            /\ (c = None \/ c = Str("")) => prompt[ContextPos] = Placeholder
            /\ (c # None /\ c # Str("")) =>
                 /\ prompt[ContextPos] = c.v
                 /\ c.v # Placeholder => prompt[ContextPos] # Placeholder
            /\ prompt[QuestionPos - 1] = "Question: "
            /\ prompt[QuestionPos] = fn_in.question.v

C8_Witness ==
    /\ PromptBuilt /\ fn_in.context = Str("")
    /\ fn_out.ret[ContextPos] = Placeholder

\* C9: across reruns the stored API key is last-write-wins: a run with the
\* hosted backend selected stores the value of the key field, a run with the
\* local backend leaves the key unchanged, initialize_session_state writes ""
\* only when the key is absent, and no other step writes the key.
C9_KeyLastWriteWins ==
    [][ /\ provider' = Str("Gemini Pro") => gemini_api_key' = key_field' /\ key_field' \in Keys
        /\ (pc = "render_sidebar" /\ provider' = Str("Ollama")) =>
             gemini_api_key' = gemini_api_key /\ key_field' = None
        /\ pc = "initialize_session_state" =>
             gemini_api_key' = IF gemini_api_key = Absent THEN Str("") ELSE gemini_api_key
        /\ pc \notin {"initialize_session_state", "render_sidebar"} =>
             gemini_api_key' = gemini_api_key
      ]_vars

C9_Witness ==
    /\ pc = "idle" /\ provider = Str("Ollama") /\ ShownMsg("sidebar.markdown", TipsMsg)
    /\ gemini_api_key = Str("aa")

\* C10 as stated: once a generation has succeeded the download button is
\* always created with the full analysis text, whatever happens to the chart.
C10_DownloadAfterSuccess ==
    (AfterRender /\ gen # None /\ gen.raised = None /\ gen.ret # None) =>
        \E i \in 1..Len(ui) : ui[i].w = "download_button" /\ ui[i].data = gen.ret

\* C10 amended: once a generation has returned a non-empty text, the analysis
\* is rendered and the download button is created with that text, whatever
\* happens to the chart: a chart is attempted only for "Gender-based Analysis",
\* and when chart creation raises a warning is shown instead of the chart.
\* A generation that succeeds with an empty text renders nothing.
C10_DownloadAfterNonEmptyText ==
    /\ (AfterRender /\ gen # None /\ gen.raised = None /\ Truthy(gen.ret)) =>
          /\ ResultShown
          /\ \E i \in 1..Len(ui) : ui[i].w = "markdown" /\ ui[i].arg = gen.ret
          /\ \E i \in 1..Len(ui) : ui[i].w = "download_button" /\ ui[i].data = gen.ret
          /\ ChartAttempted => analysis_type = Str("Gender-based Analysis")
          /\ (analysis_type = Str("Gender-based Analysis") /\ LacksChartColumn(df)) =>
               ShownMsg("warning", ChartWarnMsg) /\ ~ShownKind("plotly_chart")
    /\ (AfterRender /\ gen # None /\ gen.ret = Str("")) =>
          ~ResultShown /\ ~ChartAttempted /\ ~DownloadShown

C10_Witness ==
    /\ pc = "idle" /\ gen # None /\ Truthy(gen.ret) /\ ChartColumnsMissing
    /\ ShownMsg("warning", ChartWarnMsg) /\ DownloadShown

====
